---- MODULE Spec2Model ----
(***************************************************************************)
(* static-server.js: startup (configuration resolution, certificate        *)
(* loading, server creation, listen) and the Koa request pipeline.         *)
(*                                                                         *)
(* The model follows the current revision, src/unnamed/part_000 lines      *)
(* 1-648.  JavaScript values are records [t, s, n, o]: the type tag, the   *)
(* string payload, the number payload and the own properties of an object. *)
(***************************************************************************)
EXTENDS Integers, Sequences, FiniteSets, TLC

VARIABLES
    pc,                                     \* position of the module's top-level code
    argv,                                   \* process.argv[2..7] as read by the resolver
    configurationFile,                      \* static-server.configuration.json as read
    configurationFromCommandLineArguments,  \* local of getConfiguration
    configurationFromFile,                  \* local of getConfiguration
    configuration,                          \* const configuration (TDZ until initialised)
    reads,                                  \* the three fs.readFile promises of readCertificates
    rejection,                              \* the rejection Promise.all settled with
    privateKey,
    certificateSigningRequest,
    certificate,
    httpsEnabled,
    server,                                 \* the http / https Server instance
    banner,                                 \* startup banners written by the listen callback
    stderr,                                 \* error lines written by logError during startup
    uncaught,                               \* the error that ended the process
    middleware,                             \* app.middleware, in app.use order
    rpc,                                    \* position of the request in the chain
    ctx,                                    \* the Koa context of the request in hand
    response,                               \* what was written to the socket for it
    accessLog,                              \* access lines logged for it
    errorLog,                               \* error lines logged for it
    trace,                                  \* the stage events of the request, in order
    parked                                  \* the other request in flight, while this one runs

startupVars == << pc, argv, configurationFile, configurationFromCommandLineArguments,
                  configurationFromFile, configuration, reads, rejection, privateKey,
                  certificateSigningRequest, certificate, httpsEnabled, server, banner,
                  stderr, uncaught >>

requestVars == << rpc, ctx, response, accessLog, errorLog, trace >>

vars == << startupVars, middleware, requestVars, parked >>

-----------------------------------------------------------------------------
(* JavaScript values *)

EmptyObject == [k \in {} |-> 0]

Undefined == [t |-> "undefined", s |-> "", n |-> 0, o |-> EmptyObject]
Null      == [t |-> "null",      s |-> "", n |-> 0, o |-> EmptyObject]
NaN       == [t |-> "number",    s |-> "NaN", n |-> 0, o |-> EmptyObject]
Str(x)    == [t |-> "string",    s |-> x,  n |-> 0, o |-> EmptyObject]
Num(k)    == [t |-> "number",    s |-> "", n |-> k, o |-> EmptyObject]
Obj(f)    == [t |-> "object",    s |-> "", n |-> 0, o |-> f]

\* a ?? b
Coalesce(a, b) == IF a.t \in {"null", "undefined"} THEN b ELSE a

\* object?.property and object.property of a record of settings
OptionalMember(object, property) ==
    IF object.t \in {"null", "undefined"} THEN Undefined
    ELSE IF property \in DOMAIN object.o THEN object.o[property] ELSE Undefined

\* Object.keys(object).length
KeyCount(object) == Cardinality(DOMAIN object.o)

\* an object literal with one property
Single(k, v) == [x \in {k} |-> v]

-----------------------------------------------------------------------------
(* validation *)

validateCertificateName(certificateName) ==
    IF certificateName.t = "string" /\ certificateName.s # ""
    THEN certificateName ELSE Null

validateFileNameExtensionMediaTypes(fileNameExtensionMediaTypes) ==
    IF fileNameExtensionMediaTypes.t = "object"
    THEN Obj([ fileNameExtension \in
                 { k \in DOMAIN fileNameExtensionMediaTypes.o :
                     /\ k # ""
                     /\ fileNameExtensionMediaTypes.o[k].t = "string"
                     /\ fileNameExtensionMediaTypes.o[k].s # "" }
               |-> fileNameExtensionMediaTypes.o[fileNameExtension] ])
    ELSE Null

validateHeaders(headers) ==
    IF headers.t = "object"
    THEN Obj([ headerName \in
                 { k \in DOMAIN headers.o :
                     /\ k # ""
                     /\ headers.o[k].t = "string"
                     /\ headers.o[k].s # "" }
               |-> headers.o[headerName] ])
    ELSE Null

validateHostName(hostName) ==
    IF hostName.t = "string" /\ hostName.s # "" THEN hostName ELSE Null

\* variant: the lower end of the range is left out
PortInRangeAbove(portNumber) ==
    /\ portNumber.s # "NaN"
    /\ \/ portNumber.n = 80
       \/ portNumber.n = 443
       \/ (portNumber.n > 1024 /\ portNumber.n <= 65535)

\* every comparison with NaN is false
PortInRange(portNumber) ==
    /\ portNumber.s # "NaN"
    /\ \/ portNumber.n = 80
       \/ portNumber.n = 443
       \/ (portNumber.n >= 1024 /\ portNumber.n <= 65535)

validatePortNumber(portNumber) ==
    IF portNumber.t = "number" /\ PortInRange(portNumber)
    THEN portNumber ELSE Null

validateRootFolder(rootFolder) ==
    IF rootFolder.t = "string" /\ rootFolder.s # "" THEN rootFolder ELSE Null

-----------------------------------------------------------------------------
(* DEFAULTS *)

DEFAULT_PORT_NUMBER == 8020

DEFAULTS ==
    [ CERTIFICATE_NAME |-> Str("localhost"),
      ENVIRONMENT |-> Str("development"),
      FILE_NAME_EXTENSION_MEDIA_TYPES |-> Obj(EmptyObject),
      HEADERS |-> Obj(EmptyObject),
      HOST_NAME |-> Str("localhost"),
      PORT_NUMBER |-> Num(DEFAULT_PORT_NUMBER),
      ROOT_FOLDER |-> Str(".") ]

-----------------------------------------------------------------------------
(* errors *)

NoError == [name |-> "", code |-> ""]
Err(name, code) == [name |-> name, code |-> code]

\* const configuration is in its temporal dead zone until getConfiguration
\* has returned: reading it earlier throws a ReferenceError
Uninitialized == [t |-> "uninitialized", s |-> "", n |-> 0, o |-> EmptyObject]

\* logging.logError: the line it writes reads configuration.ENVIRONMENT
LogErrorThrows == configuration = Uninitialized
LogError(log, error) == Append(log, error)

-----------------------------------------------------------------------------
(* the inputs of startup *)

\* number of settings the configuration file may hold
MaxFileSettings == 2

\* text of a JSON command-line argument: JSON.parse throws on malformed text
JsonText(value) == [ok |-> TRUE, value |-> value]
Malformed == [ok |-> FALSE, value |-> Undefined]

ArgRootFolder == {"", "public"}
ArgHostName == {"", "cli.host"}
ArgPortNumber == { <<"8", "0", "x">>, <<"x">> }
ArgCertificateName == {"", "cli.cert"}
ArgHeaders == { Malformed, JsonText(Num(1)), JsonText(Obj(Single("X-Test", Str("cli")))) }
ArgFileNameExtensionMediaTypes ==
    { Malformed, JsonText(Num(1)), JsonText(Obj(Single("mu", Str("text/plain")))) }

\* process.argv.slice(2): positional, so a later argument needs the earlier ones
ArgvSet ==
    { SubSeq(a, 1, k) :
        a \in ArgRootFolder \X ArgHostName \X ArgPortNumber \X ArgCertificateName
                \X ArgHeaders \X ArgFileNameExtensionMediaTypes,
        k \in 0..6 }

FileKeys == { "certificate_name", "file_name_extension_media_types", "headers",
              "host_name", "port_number", "root_folder" }

FileValues(key) ==
    CASE key = "certificate_name" -> { Str(""), Str("file.cert") }
      [] key = "file_name_extension_media_types" ->
            { Obj(Single("mu", Num(1))), Obj(Single("mu", Str("application/x-mustache"))) }
      [] key = "headers" ->
            { Obj(Single("X-Test", Str(""))), Obj(Single("X-Test", Str("file"))) }
      [] key = "host_name" -> { Num(1), Str("file.host") }
      [] key = "port_number" -> { Num(1023), Num(443) }
      [] key = "root_folder" -> { Str(""), Str("www") }

FileObjects ==
    UNION { { f \in [keys -> UNION { FileValues(k) : k \in FileKeys }] :
                \A k \in keys : f[k] \in FileValues(k) } :
            keys \in { ks \in SUBSET FileKeys : Cardinality(ks) <= MaxFileSettings } }

\* what fs.readFile and JSON.parse make of static-server.configuration.json
FileSet ==
    { [status |-> "ENOENT", json |-> Undefined],
      [status |-> "malformed", json |-> Undefined],
      [status |-> "ok", json |-> Num(1)],
      [status |-> "ok", json |-> Null] }
    \cup { [status |-> "ok", json |-> Obj(f)] : f \in FileObjects }

NoFile == [status |-> "unread", json |-> Undefined]

\* process.argv[i + 1]: undefined past the end
HasArg(a, i) == i <= Len(a)

Digits == << "0", "1", "2", "3", "4", "5", "6", "7", "8", "9" >>
IsDigit(c) == \E d \in 1..10 : Digits[d] = c
DigitValue(c) == (CHOOSE d \in 1..10 : Digits[d] = c) - 1

RECURSIVE DigitPrefix(_, _)
\* the value of the longest prefix of digits of text, continuing from acc
DigitPrefix(text, acc) ==
    IF text # << >> /\ IsDigit(Head(text))
    THEN DigitPrefix(Tail(text), 10 * acc + DigitValue(Head(text)))
    ELSE acc

\* Number.parseInt(text, 10): the leading digits, NaN when there are none
ParseInt(text) ==
    IF text # << >> /\ Head(text) = "-"
    THEN IF Len(text) > 1 /\ IsDigit(text[2]) THEN Num(0 - DigitPrefix(Tail(text), 0)) ELSE NaN
    ELSE IF text # << >> /\ IsDigit(Head(text)) THEN Num(DigitPrefix(text, 0)) ELSE NaN

\* (typeof process.argv[i] === 'string') ? JSON.parse(process.argv[i]) : null
ParsedArg(a, i) == IF HasArg(a, i) THEN a[i].value ELSE Null
ParseArgThrows(a, i) == HasArg(a, i) /\ ~a[i].ok

StringArg(a, i) == IF HasArg(a, i) THEN Str(a[i]) ELSE Undefined

\* readConfigurationFromCommandLineArguments throws when JSON.parse does
ReadCommandLineThrows(a) == ParseArgThrows(a, 6) \/ ParseArgThrows(a, 5)

readConfigurationFromCommandLineArguments(a) ==
    Obj([ CERTIFICATE_NAME |-> validateCertificateName(StringArg(a, 4)),
          FILE_NAME_EXTENSION_MEDIA_TYPES |-> validateHeaders(ParsedArg(a, 6)),
          HEADERS |-> validateHeaders(ParsedArg(a, 5)),
          HOST_NAME |-> validateHostName(StringArg(a, 2)),
          PORT_NUMBER |-> validatePortNumber(IF HasArg(a, 3) THEN ParseInt(a[3]) ELSE Null),
          ROOT_FOLDER |-> validateRootFolder(StringArg(a, 1)) ])

\* the error readConfigurationFromFile catches, if any
FileError(file) ==
    CASE file.status = "ENOENT" -> Err("Error", "ENOENT")
      [] file.status = "malformed" -> Err("SyntaxError", "")
      [] file.status = "ok" /\ (file.json.t # "object") -> Err("TypeError", "")
      [] OTHER -> NoError

\* the object readConfigurationFromFile returns from a parsed object
SanitizeFile(json) ==
    Obj([ CERTIFICATE_NAME |->
              validateCertificateName(OptionalMember(json, "certificate_name")),
          FILE_NAME_EXTENSION_MEDIA_TYPES |->
              validateFileNameExtensionMediaTypes(
                  OptionalMember(json, "file_name_extension_media_types")),
          HEADERS |-> validateHeaders(OptionalMember(json, "headers")),
          HOST_NAME |-> validateHostName(OptionalMember(json, "host_name")),
          PORT_NUMBER |-> validatePortNumber(OptionalMember(json, "port_number")),
          ROOT_FOLDER |-> validateRootFolder(OptionalMember(json, "root_folder")) ])

\* path.resolve(folder) against the current folder
CURRENT_FOLDER == "/cwd"
PathResolve(folder) ==
    IF folder.s = "." THEN Str(CURRENT_FOLDER) ELSE Str(CURRENT_FOLDER \o "/" \o folder.s)

\* variant: the file is asked before the command line
SettingFileFirst(fromArguments, fromFile, name) ==
    Coalesce(Coalesce(OptionalMember(fromFile, name), OptionalMember(fromArguments, name)),
             DEFAULTS[name])

\* the three-level ?? chain of one setting
Setting(fromArguments, fromFile, name) ==
    Coalesce(Coalesce(OptionalMember(fromArguments, name), OptionalMember(fromFile, name)),
             DEFAULTS[name])

\* the object getConfiguration returns
getConfiguration(fromArguments, fromFile) ==
    Obj([ CERTIFICATE_NAME |-> Setting(fromArguments, fromFile, "CERTIFICATE_NAME"),
          ENVIRONMENT |-> DEFAULTS.ENVIRONMENT,
          FILE_NAME_EXTENSION_MEDIA_TYPES |->
              Setting(fromArguments, fromFile, "FILE_NAME_EXTENSION_MEDIA_TYPES"),
          HEADERS |-> Setting(fromArguments, fromFile, "HEADERS"),
          HOST_NAME |-> Setting(fromArguments, fromFile, "HOST_NAME"),
          PORT_NUMBER |-> Setting(fromArguments, fromFile, "PORT_NUMBER"),
          ROOT_FOLDER |-> PathResolve(Setting(fromArguments, fromFile, "ROOT_FOLDER")) ])

-----------------------------------------------------------------------------
(* startup: the module's top-level code *)

Released == << >>

\* the request side before the first request
Idle == [at |-> 0, dir |-> "idle"]
NoHeaders == [h \in {} |-> ""]
NoBody == [kind |-> "none", path |-> ""]
NoContext ==
    [ method |-> "", path |-> << >>, ifNoneMatch |-> "", status |-> 0,
      explicitStatus |-> FALSE, headers |-> NoHeaders, body |-> NoBody,
      error |-> [status |-> 0, code |-> ""] ]
NoResponse == [status |-> 0, headers |-> NoHeaders, body |-> NoBody]
\* a request slot nothing has arrived in
NoRequest ==
    [ rpc |-> Idle, ctx |-> NoContext, response |-> NoResponse, accessLog |-> << >>,
      errorLog |-> << >>, trace |-> << >> ]
NoReads == [i \in 1..3 |-> [file |-> "", settled |-> FALSE]]
NoBanner == [count |-> 0, scheme |-> ""]

Init ==
    /\ pc = "getConfiguration"
    /\ argv = Released
    /\ configurationFile = NoFile
    /\ configurationFromCommandLineArguments = Undefined
    /\ configurationFromFile = Undefined
    /\ configuration = Uninitialized
    /\ reads = NoReads
    /\ rejection = ""
    /\ privateKey = Undefined
    /\ certificateSigningRequest = Undefined
    /\ certificate = Undefined
    /\ httpsEnabled = FALSE
    /\ server = "none"
    /\ banner = NoBanner
    /\ stderr = << >>
    /\ uncaught = NoError
    /\ middleware = << >>
    /\ rpc = Idle
    /\ ctx = NoContext
    /\ response = NoResponse
    /\ accessLog = << >>
    /\ errorLog = << >>
    /\ trace = << >>
    /\ parked = NoRequest

\* an uncaught error ends the process
Abort(error) ==
    /\ pc' = "aborted"
    /\ uncaught' = error

\* getConfiguration, up to its await: reads process.argv
ReadConfigurationFromCommandLineArguments ==
    /\ pc = "getConfiguration"
    /\ \E a \in ArgvSet :
         /\ argv' = a
         /\ IF ReadCommandLineThrows(a)
            THEN /\ Abort(Err("SyntaxError", ""))
                 /\ UNCHANGED configurationFromCommandLineArguments
            ELSE /\ configurationFromCommandLineArguments' =
                        readConfigurationFromCommandLineArguments(a)
                 /\ pc' = "readConfigurationFromFile"
                 /\ UNCHANGED uncaught
    /\ UNCHANGED << configurationFile, configurationFromFile, configuration, reads,
                    rejection, privateKey, certificateSigningRequest, certificate,
                    httpsEnabled, server, banner, stderr >>
    /\ UNCHANGED << middleware, requestVars, parked >>

\* readConfigurationFromFile: the read, the parse, and the catch block
ReadConfigurationFromFile ==
    /\ pc = "readConfigurationFromFile"
    /\ \E file \in FileSet :
         /\ configurationFile' = file
         /\ IF FileError(file) = NoError
            THEN /\ configurationFromFile' = SanitizeFile(file.json)
                 /\ pc' = "getConfiguration.return"
                 /\ UNCHANGED << stderr, uncaught >>
            ELSE IF LogErrorThrows
            THEN /\ Abort(Err("ReferenceError", ""))
                 /\ UNCHANGED << configurationFromFile, stderr >>
            ELSE /\ stderr' = LogError(stderr, FileError(file))
                 /\ configurationFromFile' = Null
                 /\ pc' = "getConfiguration.return"
                 /\ UNCHANGED uncaught
    /\ UNCHANGED << argv, configurationFromCommandLineArguments, configuration, reads,
                    rejection, privateKey, certificateSigningRequest, certificate,
                    httpsEnabled, server, banner >>
    /\ UNCHANGED << middleware, requestVars, parked >>

\* getConfiguration returns and const configuration is initialised
GetConfigurationReturn ==
    /\ pc = "getConfiguration.return"
    /\ configuration' = getConfiguration(configurationFromCommandLineArguments,
                                         configurationFromFile)
    /\ pc' = "readCertificates"
    /\ UNCHANGED << argv, configurationFile, configurationFromCommandLineArguments,
                    configurationFromFile, reads, rejection, privateKey,
                    certificateSigningRequest, certificate, httpsEnabled, server, banner,
                    stderr, uncaught >>
    /\ UNCHANGED << middleware, requestVars, parked >>

ReadOutcomes == { "ok", "ENOENT", "EACCES" }

\* readCertificates, up to its await: the three reads (.key, .csr, .crt) are
\* started together; each file is there, absent, or unreadable.
\* The frame of getConfiguration is gone by now.
ReadCertificatesStart ==
    /\ pc = "readCertificates"
    /\ \E files \in [1..3 -> ReadOutcomes] :
         reads' = [i \in 1..3 |-> [file |-> files[i], settled |-> FALSE]]
    /\ argv' = Released
    /\ configurationFile' = NoFile
    /\ configurationFromCommandLineArguments' = Undefined
    /\ configurationFromFile' = Undefined
    /\ pc' = "awaitCertificates"
    /\ UNCHANGED << configuration, rejection, privateKey, certificateSigningRequest,
                    certificate, httpsEnabled, server, banner, stderr, uncaught >>
    /\ UNCHANGED << middleware, requestVars, parked >>

\* one fs.readFile settles, in any order; Promise.all rejects with the first
\* rejection and the await resumes before another read can settle
SettleRead(i) ==
    /\ pc = "awaitCertificates"
    /\ rejection = ""
    /\ ~reads[i].settled
    /\ reads' = [reads EXCEPT ![i].settled = TRUE]
    /\ rejection' = IF reads[i].file = "ok" THEN "" ELSE reads[i].file
    /\ UNCHANGED << pc, argv, configurationFile, configurationFromCommandLineArguments,
                    configurationFromFile, configuration, privateKey,
                    certificateSigningRequest, certificate, httpsEnabled, server, banner,
                    stderr, uncaught >>
    /\ UNCHANGED << middleware, requestVars, parked >>

\* Promise.all fulfilled: the bundle holds the three texts
ReadCertificatesReturn ==
    /\ pc = "awaitCertificates"
    /\ \A i \in 1..3 : reads[i].settled /\ reads[i].file = "ok"
    /\ privateKey' = Str("key")
    /\ certificateSigningRequest' = Str("csr")
    /\ certificate' = Str("crt")
    /\ pc' = "createServer"
    /\ UNCHANGED << argv, configurationFile, configurationFromCommandLineArguments,
                    configurationFromFile, configuration, reads, rejection, httpsEnabled,
                    server, banner, stderr, uncaught >>
    /\ UNCHANGED << middleware, requestVars, parked >>

\* variants: every error is thrown again;  none is
RethrownAlways(code) == code = code
RethrownNever(code) == code # code

\* if (error.code !== 'ENOENT') throw error
Rethrown(code) == code # "ENOENT"

\* Promise.all rejected: the catch block of readCertificates
ReadCertificatesCatch ==
    /\ pc = "awaitCertificates"
    /\ rejection # ""
    /\ IF LogErrorThrows
       THEN /\ Abort(Err("ReferenceError", ""))
            /\ UNCHANGED << stderr, privateKey, certificateSigningRequest, certificate >>
       ELSE /\ stderr' = LogError(stderr, Err("Error", rejection))
            /\ IF Rethrown(rejection)
               THEN /\ Abort(Err("Error", rejection))
                    /\ UNCHANGED << privateKey, certificateSigningRequest, certificate >>
               ELSE /\ privateKey' = Null
                    /\ certificateSigningRequest' = Null
                    /\ certificate' = Null
                    /\ pc' = "createServer"
                    /\ UNCHANGED uncaught
    /\ UNCHANGED << argv, configurationFile, configurationFromCommandLineArguments,
                    configurationFromFile, configuration, reads, rejection, httpsEnabled,
                    server, banner >>
    /\ UNCHANGED << middleware, requestVars, parked >>

-----------------------------------------------------------------------------
(* strings as token sequences: "/" and "." are tokens of their own *)

Includes(text, token) == \E i \in 1..Len(text) : text[i] = token
EndsWith(text, token) == text # << >> /\ text[Len(text)] = token

\* text.lastIndexOf(token), 1-based; 0 when there is none
LastIndexOf(text, token) ==
    IF Includes(text, token)
    THEN CHOOSE i \in 1..Len(text) :
            /\ text[i] = token
            /\ \A j \in (i + 1)..Len(text) : text[j] # token
    ELSE 0

\* text.slice(from), from 0-based
Slice(text, from) == SubSeq(text, from + 1, Len(text))

RECURSIVE Join(_)
\* the string the tokens spell
Join(text) == IF text = << >> THEN "" ELSE Head(text) \o Join(Tail(text))

-----------------------------------------------------------------------------
(* startup, continued: the application and the server *)

\* variant: the static-file stage is registered ahead of the content-type stage
RegisteredSendFirst(headers) ==
    << "accessLog", "redirect", "conditionalGet", "etag" >>
    \o (IF KeyCount(headers) > 0 THEN << "headers" >> ELSE << >>)
    \o << "send", "contentType" >>

\* the app.use calls, in order; the header stage is registered only when
\* configuration.HEADERS has keys
Registered(headers) ==
    << "accessLog", "redirect", "conditionalGet", "etag" >>
    \o (IF KeyCount(headers) > 0 THEN << "headers" >> ELSE << >>)
    \o << "contentType", "send" >>

\* const httpsEnabled
HttpsEnabled(key, csr, crt) == key # Null /\ csr # Null /\ crt # Null

\* variant: a plain server whatever the bundle holds
CreateServerKindPlain(enabled) == IF enabled THEN "http" ELSE "http"

\* https.createServer or http.createServer
CreateServerKind(enabled) == IF enabled THEN "https" ELSE "http"

\* from const httpsEnabled to const server: synchronous code
CreateServer ==
    /\ pc = "createServer"
    /\ httpsEnabled' = HttpsEnabled(privateKey, certificateSigningRequest, certificate)
    /\ middleware' = Registered(OptionalMember(configuration, "HEADERS"))
    /\ server' = CreateServerKind(httpsEnabled')
    /\ pc' = "listen"
    /\ UNCHANGED << argv, configurationFile, configurationFromCommandLineArguments,
                    configurationFromFile, configuration, reads, rejection, privateKey,
                    certificateSigningRequest, certificate, banner, stderr, uncaught,
                    requestVars, parked >>

BindOutcomes == { "ok", "EADDRINUSE", "EACCES" }

\* variant: the banner shows http:// whatever the server is
BannerSchemePlain(enabled) == IF enabled THEN "http://" ELSE "http://"

\* the scheme the banner shows
BannerScheme(enabled) == IF enabled THEN "https://" ELSE "http://"

\* variant: a bind failure is recorded and the process goes on
ListenIgnoringFailure ==
    /\ pc = "listen"
    /\ \E outcome \in BindOutcomes :
         IF outcome = "ok"
         THEN /\ banner' = [count |-> banner.count + 1,
                            scheme |-> BannerScheme(httpsEnabled)]
              /\ UNCHANGED uncaught
         ELSE /\ uncaught' = Err("Error", outcome)
              /\ UNCHANGED banner
    /\ pc' = "listening"
    /\ reads' = NoReads
    /\ UNCHANGED << argv, configurationFile, configurationFromCommandLineArguments,
                    configurationFromFile, configuration, rejection, privateKey,
                    certificateSigningRequest, certificate, httpsEnabled, server, stderr,
                    middleware, requestVars, parked >>

\* server.listen: the callback runs once the socket is bound; a bind failure is
\* an 'error' event nobody listens to, which ends the process.  The settled
\* promises of readCertificates are gone by now.
Listen ==
    /\ pc = "listen"
    /\ \E outcome \in BindOutcomes :
         IF outcome = "ok"
         THEN /\ banner' = [count |-> banner.count + 1,
                            scheme |-> BannerScheme(httpsEnabled)]
              /\ pc' = "listening"
              /\ UNCHANGED uncaught
         ELSE /\ Abort(Err("Error", outcome))
              /\ UNCHANGED banner
    /\ reads' = NoReads
    /\ UNCHANGED << argv, configurationFile, configurationFromCommandLineArguments,
                    configurationFromFile, configuration, rejection, privateKey,
                    certificateSigningRequest, certificate, httpsEnabled, server, stderr,
                    middleware, requestVars, parked >>

StartupNext ==
    \/ ReadConfigurationFromCommandLineArguments
    \/ ReadConfigurationFromFile
    \/ GetConfigurationReturn
    \/ ReadCertificatesStart
    \/ \E i \in 1..3 : SettleRead(i)
    \/ ReadCertificatesReturn
    \/ ReadCertificatesCatch
    \/ CreateServer
    \/ Listen

StartupSpec == Init /\ [][StartupNext]_vars

-----------------------------------------------------------------------------
(* the served folder *)

Directories == { "/", "/d", "/e", "/a.b" }
Files == { "/index.html", "/d/index.html", "/f", "/s.css", "/t.mu", "/t.MU", "/u.zzz",
           "/v.constructor", "/a.b/c", "/.hid" }
\* a symbolic link that points at itself: stat fails with ELOOP
Loops == { "/loop" }
\* a file beside the served folder, not in it
OutsideFiles == { "/../x" }

\* fs.stat of root + name: what it finds, or the code of the error it throws.
\* The folder holds the same tree whichever root folder is configured.
Stat(root, name) ==
    IF name \in Directories THEN "dir"
    ELSE IF name \in Files \cup OutsideFiles THEN "file"
    ELSE IF name \in Loops THEN "ELOOP"
    ELSE "ENOENT"

\* the request paths of the model, as ctx.path: the path as the client wrote
\* it, percent-encoding included ("%2e" is one token, an encoded '.')
RequestPaths ==
    { << "/" >>, << "/", "d" >>, << "/", "d", "/" >>, << "/", "e" >>, << "/", "e", "/" >>,
      << "/", "f" >>, << "/", "n" >>, << "/", "loop" >>,
      << "/", "s", ".", "css" >>, << "/", "t", ".", "mu" >>, << "/", "u", ".", "zzz" >>,
      << "/", "v", ".", "constructor" >>, << "/", "m", ".", "png" >>,
      << "/", "a", ".", "b", "/", "c" >>, << "/", ".", ".", "/", "x" >>,
      << "/", ".", "hid" >>, << "/", "t", ".", "MU" >>,
      << "/", "%2e", "%2e", "/", "x" >> }

Methods == { "GET" }

-----------------------------------------------------------------------------
(* Koa: response headers, type, status, body *)

GetHeader(headers, name) == IF name \in DOMAIN headers THEN headers[name] ELSE ""
SetHeader(headers, name, value) ==
    [h \in DOMAIN headers \cup {name} |-> IF h = name THEN value ELSE headers[h]]
RemoveHeader(headers, name) == [h \in DOMAIN headers \ {name} |-> headers[h]]

\* ctx.set(object): every own property becomes a header
SetHeaders(headers, object) ==
    [h \in DOMAIN headers \cup DOMAIN object.o |->
        IF h \in DOMAIN object.o THEN object.o[h].s ELSE headers[h]]

\* mime-types lookup of an extension; "" when the database has none
MimeLookup(extension) ==
    CASE extension = "css" -> "text/css"
      [] extension = "html" -> "text/html"
      [] extension = "png" -> "image/png"
      [] extension = "bin" -> "application/octet-stream"
      [] extension = "text" -> "text/plain"
      [] OTHER -> ""

\* the strings of this model that contain "/"
FullMediaTypes == { "text/plain", "application/x-mustache", "b/c" }

\* mime-types charset of a media type; "" when it has none
MimeCharset(mediaType) ==
    IF mediaType \in { "text/plain", "text/css", "text/html" } THEN "utf-8" ELSE ""

\* mime-types contentType, which the setter of ctx.type applies; "" stands for false
MimeContentType(type) ==
    LET mime == IF type \in FullMediaTypes THEN type ELSE MimeLookup(type)
    IN  IF mime = "" THEN ""
        ELSE IF MimeCharset(mime) # "" THEN mime \o "; charset=" \o MimeCharset(mime)
        ELSE mime

\* ctx.type = value, for a string value
SetType(headers, type) ==
    IF MimeContentType(type) # ""
    THEN SetHeader(headers, "Content-Type", MimeContentType(type))
    ELSE RemoveHeader(headers, "Content-Type")

\* ctx.status = code
SetStatus(c, code) == [c EXCEPT !.status = code, !.explicitStatus = TRUE]

\* ctx.body = a string or a stream
SetBody(c, kind, name, length) ==
    LET stated == IF c.explicitStatus THEN c ELSE SetStatus(c, 200)
        typed == IF "Content-Type" \in DOMAIN stated.headers THEN stated.headers
                 ELSE SetType(stated.headers, IF kind = "stream" THEN "bin" ELSE "text")
        sized == IF kind = "string" THEN SetHeader(typed, "Content-Length", length)
                 ELSE IF c.body # NoBody THEN RemoveHeader(typed, "Content-Length")
                 ELSE typed
    IN  [stated EXCEPT !.headers = sized, !.body = [kind |-> kind, path |-> name]]

\* ctx.body = null
SetNullBody(c) ==
    LET stated == IF c.status \in { 204, 205, 304 } THEN c ELSE SetStatus(c, 204)
    IN  [stated EXCEPT
            !.headers = RemoveHeader(RemoveHeader(stated.headers, "Content-Type"),
                                     "Content-Length"),
            !.body = NoBody]

\* ctx.redirect(url), for a client that accepts html
Redirect(c, url) ==
    LET located == [c EXCEPT !.headers = SetHeader(c.headers, "Location", url)]
        stated == IF located.status \in { 300, 301, 302, 303, 305, 307, 308 }
                  THEN located ELSE SetStatus(located, 302)
        typed == [stated EXCEPT
                     !.headers = SetHeader(stated.headers, "Content-Type",
                                           "text/html; charset=utf-8")]
    IN  SetBody(typed, "string", "Redirecting to " \o url, "redirect")

-----------------------------------------------------------------------------
(* @koa/send *)

IndexDocument == << "index", ".", "html" >>

\* decode(path): decodeURIComponent of the path
Decode(text) == [i \in DOMAIN text |-> IF text[i] = "%2e" THEN "." ELSE text[i]]

\* resolve-path: a ".." segment in the relative path
UpPath(relative) ==
    \E i \in 1..(Len(relative) - 1) :
        /\ relative[i] = "." /\ relative[i + 1] = "."
        /\ (i = 1 \/ relative[i - 1] = "/")
        /\ (i + 1 = Len(relative) \/ relative[i + 2] = "/")

\* isHidden: a segment that starts with "."
Hidden(relative) ==
    \E i \in 1..Len(relative) :
        /\ relative[i] = "."
        /\ (i = 1 \/ relative[i - 1] = "/")

\* path.extname of the last segment, without its dot
Extname(relative) ==
    LET start == LastIndexOf(relative, "/")
        segment == Slice(relative, start)
        dot == LastIndexOf(segment, ".")
    IN  IF dot > 1 THEN Join(Slice(segment, dot)) ELSE ""

Thrown(status, code) == [kind |-> "throw", status |-> status, code |-> code, file |-> << >>]
NotServed == [kind |-> "return", status |-> 0, code |-> "", file |-> << >>]
Served(file) == [kind |-> "serve", status |-> 0, code |-> "", file |-> file]

\* the error send throws for a failed stat
StatError(code) ==
    IF code \in { "ENOENT", "ENAMETOOLONG", "ENOTDIR" } THEN Thrown(404, code)
    ELSE Thrown(500, code)

\* variant: the path is neither resolved against the root nor tested for
\* hidden segments
SendOutcomeUnchecked(root, path) ==
    LET trailingSlash == EndsWith(path, "/")
        stripped == Decode(Tail(path))
        relative == IF trailingSlash THEN stripped \o IndexDocument ELSE stripped
        first == Stat(root, "/" \o Join(relative))
        inFolder == relative \o << "/" >> \o IndexDocument
        second == Stat(root, "/" \o Join(inFolder))
    IN  IF first = "dir"
        THEN IF second \in { "file", "dir" } THEN Served(inFolder) ELSE StatError(second)
        ELSE IF first = "file" THEN Served(relative)
        ELSE StatError(first)

\* send(ctx, ctx.path, { index: 'index.html', root: ROOT_FOLDER }) up to the stat:
\* the file it goes on to stream, or the error it throws, or nothing
SendOutcome(root, path) ==
    LET trailingSlash == EndsWith(path, "/")
        stripped == Decode(Tail(path))
        relative == IF trailingSlash THEN stripped \o IndexDocument ELSE stripped
        first == Stat(root, "/" \o Join(relative))
        inFolder == relative \o << "/" >> \o IndexDocument
        second == Stat(root, "/" \o Join(inFolder))
    IN  IF UpPath(relative) THEN Thrown(403, "")
        ELSE IF Hidden(relative) THEN NotServed
        ELSE IF first = "dir"
             THEN IF second \in { "file", "dir" } THEN Served(inFolder) ELSE StatError(second)
        ELSE IF first = "file" THEN Served(relative)
        ELSE StatError(first)

\* the headers and the body send sets for the file it streams
SendFile(c, file) ==
    LET name == "/" \o Join(file)
        sized == SetHeader(c.headers, "Content-Length", "size of " \o name)
        dated == IF GetHeader(sized, "Last-Modified") = ""
                 THEN SetHeader(sized, "Last-Modified", "mtime of " \o name) ELSE sized
        cached == IF GetHeader(dated, "Cache-Control") = ""
                  THEN SetHeader(dated, "Cache-Control", "max-age=0") ELSE dated
        typed == IF GetHeader(cached, "Content-Type") = ""
                 THEN SetType(cached, Extname(file)) ELSE cached
    IN  SetBody([c EXCEPT !.headers = typed], "stream", name, "")

\* the entity tag @koa/etag computes from the stat of a streamed file
EntityTag(name) == "W/" \o name

-----------------------------------------------------------------------------
(* the request pipeline: one action per stage entry and per stage return *)

Done == [at |-> 0, dir |-> "done"]

\* the request is at the entry of a stage / back in it after await next()
Entering(stage) == rpc.dir = "down" /\ middleware[rpc.at] = stage
Resumed(stage) == rpc.dir = "up" /\ middleware[rpc.at] = stage

\* variant: the promise of the first stage never settles
UpStalled ==
    IF rpc.at = 1 THEN [at |-> 1, dir |-> "stalled"] ELSE [at |-> rpc.at - 1, dir |-> "up"]

\* await next(): into the next stage;  return: back into the previous one
Down == [at |-> rpc.at + 1, dir |-> "down"]
Up == IF rpc.at = 1 THEN [at |-> 0, dir |-> "respond"] ELSE [at |-> rpc.at - 1, dir |-> "up"]
\* no stage catches: a rejection reaches the handler of the application
Rejected == [at |-> 0, dir |-> "onerror"]

ROOT_FOLDER == OptionalMember(configuration, "ROOT_FOLDER").s
HEADERS == OptionalMember(configuration, "HEADERS")
FILE_NAME_EXTENSION_MEDIA_TYPES ==
    OptionalMember(configuration, "FILE_NAME_EXTENSION_MEDIA_TYPES")

\* the validator a client holds for a path: the ETag of the response it has
\* just received for that path, if that response carried one
CachedEntityTags(path) ==
    IF rpc.dir = "done" /\ ctx.path = path /\ GetHeader(response.headers, "ETag") # ""
    THEN { GetHeader(response.headers, "ETag") } ELSE { }

\* Koa creates the context (status 404 until a body is set) and calls the chain
Dispatch ==
    /\ pc = "listening"
    /\ rpc.dir \in { "idle", "done" }
    /\ \E method \in Methods, path \in RequestPaths :
         \E tag \in { "" } \cup CachedEntityTags(path) :
            ctx' = [NoContext EXCEPT !.method = method, !.path = path,
                                     !.ifNoneMatch = tag, !.status = 404]
    /\ rpc' = [at |-> 1, dir |-> "down"]
    /\ response' = NoResponse
    /\ accessLog' = << >>
    /\ errorLog' = << >>
    /\ trace' = << >>
    /\ UNCHANGED << startupVars, middleware, parked >>

\* log access: await next() first
AccessLog ==
    /\ Entering("accessLog")
    /\ rpc' = Down
    /\ trace' = Append(trace, "accessLog")
    /\ UNCHANGED << startupVars, middleware, parked, ctx, response, accessLog, errorLog >>

\* variant: the folder test is made for every path that does not end in '/'
FolderCandidateDotted(path) == ~EndsWith(path, "/")

\* the guard of the folder test
FolderCandidate(path) == ~Includes(path, ".") /\ ~EndsWith(path, "/")

\* the context the folder test leaves: redirected when the path is a folder
RedirectFolder(c, stats) ==
    IF stats = "dir" THEN Redirect(c, Join(c.path) \o "/") ELSE c

\* variant: a failed stat rejects the request
AfterFolderTestAborts ==
    IF FolderCandidate(ctx.path) /\ Stat(ROOT_FOLDER, Join(ctx.path)) \notin { "dir", "file" }
    THEN Rejected ELSE Down

\* what the stage does once the folder test is over
AfterFolderTest == Down

\* append '/' and redirect on folder paths, then await next()
DirectoryRedirect ==
    /\ Entering("redirect")
    /\ LET stats == Stat(ROOT_FOLDER, Join(ctx.path))
       IN  IF FolderCandidate(ctx.path)
           THEN /\ ctx' = RedirectFolder(ctx, stats)
                /\ errorLog' = IF stats \in { "dir", "file", "ENOENT" } THEN errorLog
                               ELSE LogError(errorLog, Err("Error", stats))
           ELSE UNCHANGED << ctx, errorLog >>
    /\ rpc' = AfterFolderTest
    /\ trace' = trace \o << "redirect" >>
                 \o (IF FolderCandidate(ctx.path) THEN << "redirect.stat" >> ELSE << >>)
    /\ UNCHANGED << startupVars, middleware, parked, response, accessLog >>

DirectoryRedirectReturn ==
    /\ Resumed("redirect")
    /\ rpc' = Up
    /\ trace' = Append(trace, "redirect.return")
    /\ UNCHANGED << startupVars, middleware, parked, ctx, response, accessLog, errorLog >>

\* koa-conditional-get: await next() first
ConditionalGet ==
    /\ Entering("conditionalGet")
    /\ rpc' = Down
    /\ trace' = Append(trace, "conditionalGet")
    /\ UNCHANGED << startupVars, middleware, parked, ctx, response, accessLog, errorLog >>

\* variant: no response is ever fresh
FreshNever(c) == c.method \notin { "GET", "HEAD" } /\ c.method \in { "GET", "HEAD" }

\* ctx.fresh: a GET or HEAD, answered 2xx or 304, whose validator matches
Fresh(c) ==
    /\ c.method \in { "GET", "HEAD" }
    /\ (c.status \in 200..299 \/ c.status = 304)
    /\ c.ifNoneMatch # ""
    /\ GetHeader(c.headers, "ETag") = c.ifNoneMatch

ConditionalGetReturn ==
    /\ Resumed("conditionalGet")
    /\ ctx' = IF Fresh(ctx) THEN SetNullBody(SetStatus(ctx, 304)) ELSE ctx
    /\ rpc' = Up
    /\ trace' = Append(trace, "conditionalGet.return")
    /\ UNCHANGED << startupVars, middleware, parked, response, accessLog, errorLog >>

\* @koa/etag: await next() first
Etag ==
    /\ Entering("etag")
    /\ rpc' = Down
    /\ trace' = Append(trace, "etag")
    /\ UNCHANGED << startupVars, middleware, parked, ctx, response, accessLog, errorLog >>

\* the tag is computed for a 2xx response with a body and no ETag yet
EtagReturn ==
    /\ Resumed("etag")
    /\ ctx' = IF /\ ctx.body # NoBody
                 /\ GetHeader(ctx.headers, "ETag") = ""
                 /\ ctx.status \in 200..299
              THEN [ctx EXCEPT !.headers =
                       SetHeader(ctx.headers, "ETag", EntityTag(ctx.body.path))]
              ELSE ctx
    /\ rpc' = Up
    /\ trace' = Append(trace, "etag.return")
    /\ UNCHANGED << startupVars, middleware, parked, response, accessLog, errorLog >>

\* variant: the stage also empties the values of the shared HEADERS object
HeadersShared ==
    /\ Entering("headers")
    /\ ctx' = [ctx EXCEPT !.headers = SetHeaders(ctx.headers, HEADERS)]
    /\ configuration' =
          Obj([configuration.o EXCEPT
                 !.HEADERS = Obj([h \in DOMAIN HEADERS.o |-> Str("")])])
    /\ rpc' = Down
    /\ trace' = Append(trace, "headers")
    /\ UNCHANGED << pc, argv, configurationFile, configurationFromCommandLineArguments,
                    configurationFromFile, reads, rejection, privateKey,
                    certificateSigningRequest, certificate, httpsEnabled, server, banner,
                    stderr, uncaught >>
    /\ UNCHANGED << middleware, parked, response, accessLog, errorLog >>

\* set custom HTTP headers, then await next()
Headers ==
    /\ Entering("headers")
    /\ ctx' = [ctx EXCEPT !.headers = SetHeaders(ctx.headers, HEADERS)]
    /\ rpc' = Down
    /\ trace' = Append(trace, "headers")
    /\ UNCHANGED << startupVars, middleware, parked, response, accessLog, errorLog >>

HeadersReturn ==
    /\ Resumed("headers")
    /\ rpc' = Up
    /\ trace' = Append(trace, "headers.return")
    /\ UNCHANGED << startupVars, middleware, parked, ctx, response, accessLog, errorLog >>

\* set the Content-Type header: await next() first
ContentType ==
    /\ Entering("contentType")
    /\ rpc' = Down
    /\ trace' = Append(trace, "contentType")
    /\ UNCHANGED << startupVars, middleware, parked, ctx, response, accessLog, errorLog >>

\* property names every object inherits from Object.prototype
ObjectPrototypeKeys == { "constructor", "toString", "valueOf", "hasOwnProperty" }

\* key in object
In(key, object) == key \in DOMAIN object.o \/ key \in ObjectPrototypeKeys

\* object[key]: an inherited property is a function, not a string
Member(object, key) ==
    IF key \in DOMAIN object.o THEN object.o[key]
    ELSE [t |-> "function", s |-> "", n |-> 0, o |-> EmptyObject]

\* variant: the value becomes the header as it is
AssignTypeVerbatim(headers, value) ==
    IF value.t = "string" THEN SetHeader(headers, "Content-Type", value.s)
    ELSE RemoveHeader(headers, "Content-Type")

\* ctx.type = value: a value that is no string removes the header
AssignType(headers, value) ==
    IF value.t = "string" THEN SetType(headers, value.s)
    ELSE RemoveHeader(headers, "Content-Type")

\* the file name extension of the requested path: a string, or null
FileNameExtension(path) ==
    IF Includes(path, ".") THEN Str(Join(Slice(path, LastIndexOf(path, "."))))
    ELSE Null

\* variant: a path that ends in '/' is treated like any other
ContentTypeBranchNoIndex(path, mediaTypes) ==
    IF FileNameExtension(path) = Null THEN "plain"
    ELSE IF In(FileNameExtension(path).s, mediaTypes) THEN "mapped"
    ELSE "lookup"

\* the branch the stage takes after await next()
ContentTypeBranch(path, mediaTypes) ==
    IF EndsWith(path, "/") THEN "index"
    ELSE IF FileNameExtension(path) = Null THEN "plain"
    ELSE IF In(FileNameExtension(path).s, mediaTypes) THEN "mapped"
    ELSE "lookup"

\* variant: an extension that is not mapped leaves the headers as they are
ContentTypeHeadersUntouched(headers, path, mediaTypes) ==
    LET branch == ContentTypeBranch(path, mediaTypes)
        fileNameExtension == FileNameExtension(path)
    IN  CASE branch = "index" -> headers
          [] branch = "plain" -> SetType(headers, "text/plain")
          [] branch = "mapped" ->
                AssignType(headers, Member(mediaTypes, fileNameExtension.s))
          [] branch = "lookup" -> headers

\* variant: a path without an extension leaves the headers as they are
ContentTypeHeadersPlainUntouched(headers, path, mediaTypes) ==
    LET branch == ContentTypeBranch(path, mediaTypes)
        fileNameExtension == FileNameExtension(path)
    IN  CASE branch = "index" -> headers
          [] branch = "plain" -> headers
          [] branch = "mapped" ->
                AssignType(headers, Member(mediaTypes, fileNameExtension.s))
          [] branch = "lookup" -> SetType(headers, fileNameExtension.s)

\* variant: the extension is matched against the map without regard to case
ContentTypeHeadersFolded(headers, path, mediaTypes) ==
    LET branch == ContentTypeBranch(path, mediaTypes)
        fileNameExtension == FileNameExtension(path)
        folded == IF fileNameExtension.s = "MU" THEN "mu" ELSE fileNameExtension.s
    IN  CASE branch = "index" -> headers
          [] branch = "plain" -> SetType(headers, "text/plain")
          [] branch = "mapped" ->
                AssignType(headers, Member(mediaTypes, fileNameExtension.s))
          [] branch = "lookup" ->
                IF folded \in DOMAIN mediaTypes.o
                THEN AssignType(headers, Member(mediaTypes, folded))
                ELSE SetType(headers, fileNameExtension.s)

\* the headers the stage leaves
ContentTypeHeaders(headers, path, mediaTypes) ==
    LET branch == ContentTypeBranch(path, mediaTypes)
        fileNameExtension == FileNameExtension(path)
    IN  CASE branch = "index" -> headers
          [] branch = "plain" -> SetType(headers, "text/plain")
          [] branch = "mapped" ->
                AssignType(headers, Member(mediaTypes, fileNameExtension.s))
          [] branch = "lookup" -> SetType(headers, fileNameExtension.s)

ContentTypeReturn ==
    /\ Resumed("contentType")
    /\ ctx' = [ctx EXCEPT !.headers =
                  ContentTypeHeaders(ctx.headers, ctx.path, FILE_NAME_EXTENSION_MEDIA_TYPES)]
    /\ rpc' = Up
    /\ trace' = Append(trace, "contentType." \o
                              ContentTypeBranch(ctx.path, FILE_NAME_EXTENSION_MEDIA_TYPES))
    /\ UNCHANGED << startupVars, middleware, parked, response, accessLog, errorLog >>

\* serve the root folder as static content: the last stage
Send ==
    /\ Entering("send")
    /\ \E outcome \in { SendOutcome(ROOT_FOLDER, ctx.path) } :
           CASE outcome.kind = "serve" ->
                   /\ ctx' = SendFile(ctx, outcome.file)
                   /\ rpc' = Up
             [] outcome.kind = "return" ->
                   /\ rpc' = Up
                   /\ UNCHANGED ctx
             [] outcome.kind = "throw" ->
                   /\ ctx' = [ctx EXCEPT !.error =
                                 [status |-> outcome.status, code |-> outcome.code]]
                   /\ rpc' = Rejected
    /\ trace' = Append(trace, "send")
    /\ UNCHANGED << startupVars, middleware, parked, response, accessLog, errorLog >>

\* the access line, written after await next() has returned
AccessLogReturn ==
    /\ Resumed("accessLog")
    /\ accessLog' = Append(accessLog, [status |-> ctx.status, method |-> ctx.method,
                                      url |-> Join(ctx.path)])
    /\ rpc' = Up
    /\ trace' = Append(trace, "accessLog.return")
    /\ UNCHANGED << startupVars, middleware, parked, ctx, response, errorLog >>

\* Koa respond(): writes the response the context describes
Respond ==
    /\ rpc.dir = "respond"
    /\ response' =
         IF ctx.status \in { 204, 205, 304 }
         THEN [status |-> ctx.status, headers |-> SetNullBody(ctx).headers, body |-> NoBody]
         ELSE IF ctx.body = NoBody
         THEN [status |-> ctx.status,
               headers |-> SetHeader(SetType(ctx.headers, "text"), "Content-Length", "message"),
               body |-> [kind |-> "string", path |-> "message"]]
         ELSE [status |-> ctx.status, headers |-> ctx.headers, body |-> ctx.body]
    /\ rpc' = Done
    /\ trace' = Append(trace, "respond")
    /\ UNCHANGED << startupVars, middleware, parked, ctx, accessLog, errorLog >>

\* variant: a file that is not there is an internal error
ErrorStatusInternal(error) == IF error.code = "ENOENT" THEN 500 ELSE error.status

\* the status ctx.onerror answers with
ErrorStatus(error) == IF error.code = "ENOENT" THEN 404 ELSE error.status

\* ctx.onerror: emits 'error' (the listener logs it), drops every header that
\* was set, and answers with the status of the error
OnError ==
    /\ rpc.dir = "onerror"
    /\ errorLog' = LogError(errorLog, Err("Error", ctx.error.code))
    /\ response' = [status |-> ErrorStatus(ctx.error),
                    headers |-> SetHeader(SetType(NoHeaders, "text"),
                                          "Content-Length", "message"),
                    body |-> [kind |-> "string", path |-> "message"]]
    /\ ctx' = [ctx EXCEPT !.status = ErrorStatus(ctx.error), !.explicitStatus = TRUE]
    /\ rpc' = Done
    /\ trace' = Append(trace, "onerror")
    /\ UNCHANGED << startupVars, middleware, parked, accessLog >>

RequestNext ==
    \/ Dispatch
    \/ AccessLog
    \/ DirectoryRedirect
    \/ ConditionalGet
    \/ Etag
    \/ Headers
    \/ ContentType
    \/ Send
    \/ ContentTypeReturn
    \/ HeadersReturn
    \/ EtagReturn
    \/ ConditionalGetReturn
    \/ DirectoryRedirectReturn
    \/ AccessLogReturn
    \/ Respond
    \/ OnError

Next == StartupNext \/ RequestNext

Spec == Init /\ [][Next]_vars

-----------------------------------------------------------------------------
(* validatePortNumber over the port numbers a configuration file can hold *)

\* largest port number handed to the validator
PortSampleMax == 65540

PortNumberValues ==
    { Num(k) : k \in (0 - 1)..PortSampleMax } \cup { Null, Str("8020"), Obj(EmptyObject) }

PortNumberFiles ==
    { [status |-> "ok", json |-> Obj(Single("port_number", p))] : p \in PortNumberValues }

ValidationInit ==
    /\ pc = "validatePortNumber"
    /\ configurationFile \in PortNumberFiles
    /\ argv = Released
    /\ configurationFromCommandLineArguments = Undefined
    /\ configurationFromFile = Undefined
    /\ configuration = Uninitialized
    /\ reads = NoReads
    /\ rejection = ""
    /\ privateKey = Undefined
    /\ certificateSigningRequest = Undefined
    /\ certificate = Undefined
    /\ httpsEnabled = FALSE
    /\ server = "none"
    /\ banner = NoBanner
    /\ stderr = << >>
    /\ uncaught = NoError
    /\ middleware = << >>
    /\ rpc = Idle
    /\ ctx = NoContext
    /\ response = NoResponse
    /\ accessLog = << >>
    /\ errorLog = << >>
    /\ trace = << >>
    /\ parked = NoRequest

\* PORT_NUMBER: validation.validatePortNumber(json.port_number)
ValidatePortNumber ==
    /\ pc = "validatePortNumber"
    /\ configurationFromFile' = SanitizeFile(configurationFile.json)
    /\ pc' = "validated"
    /\ UNCHANGED << argv, configurationFile, configurationFromCommandLineArguments,
                    configuration, reads, rejection, privateKey, certificateSigningRequest,
                    certificate, httpsEnabled, server, banner, stderr, uncaught,
                    middleware, requestVars, parked >>

ValidationNext == ValidatePortNumber

ValidationSpec == ValidationInit /\ [][ValidationNext]_vars

-----------------------------------------------------------------------------
(* two requests in flight: the event loop runs one while the other waits *)

\* the request in hand, as a slot
InHand ==
    [ rpc |-> rpc, ctx |-> ctx, response |-> response, accessLog |-> accessLog,
      errorLog |-> errorLog, trace |-> trace ]

\* at an await the event loop turns to the other request
Switch ==
    /\ pc = "listening"
    /\ parked # InHand
    /\ parked' = InHand
    /\ rpc' = parked.rpc
    /\ ctx' = parked.ctx
    /\ response' = parked.response
    /\ accessLog' = parked.accessLog
    /\ errorLog' = parked.errorLog
    /\ trace' = parked.trace
    /\ UNCHANGED << startupVars, middleware >>

\* a started server: headers and an extension map from the command line, an
\* empty configuration file, no certificate files
ConcurrentArgv ==
    << "public", "cli.host", << "8", "0", "x" >>, "cli.cert",
       JsonText(Obj(Single("X-Test", Str("cli")))),
       JsonText(Obj(Single("mu", Str("text/plain")))) >>
ConcurrentConfiguration ==
    getConfiguration(readConfigurationFromCommandLineArguments(ConcurrentArgv),
                     SanitizeFile(Obj(EmptyObject)))

ConcurrentInit ==
    /\ pc = "listening"
    /\ argv = Released
    /\ configurationFile = NoFile
    /\ configurationFromCommandLineArguments = Undefined
    /\ configurationFromFile = Undefined
    /\ configuration = ConcurrentConfiguration
    /\ reads = NoReads
    /\ rejection = "ENOENT"
    /\ privateKey = Null
    /\ certificateSigningRequest = Null
    /\ certificate = Null
    /\ httpsEnabled = HttpsEnabled(Null, Null, Null)
    /\ server = CreateServerKind(httpsEnabled)
    /\ banner = [count |-> 1, scheme |-> BannerScheme(httpsEnabled)]
    /\ stderr = << Err("Error", "ENOENT") >>
    /\ uncaught = NoError
    /\ middleware = Registered(OptionalMember(configuration, "HEADERS"))
    /\ rpc = Idle
    /\ ctx = NoContext
    /\ response = NoResponse
    /\ accessLog = << >>
    /\ errorLog = << >>
    /\ trace = << >>
    /\ parked = NoRequest

ConcurrentNext == RequestNext \/ Switch

ConcurrentSpec == ConcurrentInit /\ [][ConcurrentNext]_vars

-----------------------------------------------------------------------------
(* one request at a time on a started server, with the scheduling of Node *)

\* a step of a request that has been dispatched: the continuation of an await
\* whose file-system operation or downstream stage has completed
Continue ==
    \/ AccessLog
    \/ DirectoryRedirect
    \/ ConditionalGet
    \/ Etag
    \/ Headers
    \/ ContentType
    \/ Send
    \/ ContentTypeReturn
    \/ HeadersReturn
    \/ EtagReturn
    \/ ConditionalGetReturn
    \/ DirectoryRedirectReturn
    \/ AccessLogReturn
    \/ Respond
    \/ OnError

\* the event loop runs every continuation that is ready; a client need not
\* send another request
FairSpec == ConcurrentInit /\ [][RequestNext]_vars /\ WF_vars(Continue)

-----------------------------------------------------------------------------
(* properties of the request pipeline and of startup *)

Responded == rpc.dir = "done"
ResponseHeader(name) == GetHeader(response.headers, name)

\* the request path names an existing folder, has no '.' and no trailing '/'
FolderRequested ==
    /\ FolderCandidate(ctx.path)
    /\ Stat(ROOT_FOLDER, Join(ctx.path)) = "dir"

\* C1: a request whose path has no extension and no trailing slash and names
\* an existing folder, with or without an index.html in it, is answered with
\* status 302 and a Location header equal to the path followed by "/".
C1_FolderRedirected ==
    (Responded /\ FolderRequested) =>
        /\ response.status = 302
        /\ ResponseHeader("Location") = Join(ctx.path) \o "/"

\* C2: when the configured headers are not empty, every response carries each
\* of them with its configured value, the 404 for a missing file included.
C2_HeadersOnEveryResponse ==
    (Responded /\ KeyCount(HEADERS) > 0) =>
        \A name \in DOMAIN HEADERS.o : ResponseHeader(name) = HEADERS.o[name].s

\* the configuration file has been read and was missing, malformed, or no object
FileUnusable == configurationFile # NoFile /\ FileError(configurationFile) # NoError

\* C3: a configuration file that is missing, is no valid JSON, or parses to
\* something that is not an object does not abort startup: the error is logged,
\* the file contributes no configuration, and startup goes on.
C3_FileErrorConsumed ==
    FileUnusable =>
        /\ pc # "aborted"
        /\ configurationFromFile = Null
        /\ stderr = << FileError(configurationFile) >>

\* a value counts when it is of the right type and not empty or out of range
ValidText(v) == v.t = "string" /\ v.s # ""
ValidPort(v) == v.t = "number" /\ v.s # "NaN" /\ v.n \in ({ 80, 443 } \cup (1024..65535))
ValidMap(v) == v.t = "object"

\* the first of the command-line value, the file value and the default that counts
FirstValid(fromCommandLine, fromFile, default, Valid(_)) ==
    IF Valid(fromCommandLine) THEN fromCommandLine
    ELSE IF Valid(fromFile) THEN fromFile
    ELSE default

\* the entries of a map that pair a name with a non-empty string
Entries(map) ==
    Obj([ k \in { x \in DOMAIN map.o : x # "" /\ ValidText(map.o[x]) } |-> map.o[k] ])

Resolved(name) == OptionalMember(configuration, name)
InFile(key) == OptionalMember(configurationFile.json, key)
OnCommandLine(i) == IF HasArg(argv, i) THEN Str(argv[i]) ELSE Undefined
PortOnCommandLine == IF HasArg(argv, 3) THEN ParseInt(argv[3]) ELSE Undefined
MapOnCommandLine(i) == IF HasArg(argv, i) THEN argv[i].value ELSE Undefined

\* C4: each field of the resolved configuration is, independently of the other
\* fields, the command-line value if one was given and is valid, otherwise the
\* file value if present and valid, otherwise the built-in default.
C4_Precedence ==
    pc = "readCertificates" =>
        /\ Resolved("CERTIFICATE_NAME") =
              FirstValid(OnCommandLine(4), InFile("certificate_name"),
                         DEFAULTS.CERTIFICATE_NAME, ValidText)
        /\ Resolved("HOST_NAME") =
              FirstValid(OnCommandLine(2), InFile("host_name"), DEFAULTS.HOST_NAME, ValidText)
        /\ Resolved("ROOT_FOLDER") =
              PathResolve(FirstValid(OnCommandLine(1), InFile("root_folder"),
                                     DEFAULTS.ROOT_FOLDER, ValidText))
        /\ Resolved("PORT_NUMBER") =
              FirstValid(PortOnCommandLine, InFile("port_number"),
                         DEFAULTS.PORT_NUMBER, ValidPort)
        /\ Resolved("HEADERS") =
              Entries(FirstValid(MapOnCommandLine(5), InFile("headers"),
                                 DEFAULTS.HEADERS, ValidMap))
        /\ Resolved("FILE_NAME_EXTENSION_MEDIA_TYPES") =
              Entries(FirstValid(MapOnCommandLine(6), InFile("file_name_extension_media_types"),
                                 DEFAULTS.FILE_NAME_EXTENSION_MEDIA_TYPES, ValidMap))

\* one configuration takes a field from each of the three sources, and a field
\* both sources give from the command line
C4_Witness ==
    /\ pc = "readCertificates"
    /\ OnCommandLine(4) = Str("cli.cert") /\ InFile("certificate_name") = Str("file.cert")
    /\ Resolved("CERTIFICATE_NAME") = Str("cli.cert")
    /\ OnCommandLine(2) = Str("") /\ Resolved("HOST_NAME") = Str("file.host")
    /\ Resolved("PORT_NUMBER") = Num(DEFAULT_PORT_NUMBER)

BundleLoaded ==
    privateKey.t = "string" /\ certificateSigningRequest.t = "string"
        /\ certificate.t = "string"
BundleNull == privateKey = Null /\ certificateSigningRequest = Null /\ certificate = Null
AllRead == \A i \in 1..3 : reads[i].settled /\ reads[i].file = "ok"

\* C6: the server is an HTTPS server exactly when the private key, the signing
\* request and the certificate were all loaded; in every other started state
\* it is a plain HTTP server.
C6_HttpsIffBundleLoaded ==
    /\ server # "none" => (server = "https" <=> BundleLoaded)
    /\ pc = "listen" => (BundleLoaded <=> AllRead)
    /\ pc = "listening" =>
          /\ server \in { "http", "https" }
          /\ banner.scheme = (IF BundleLoaded THEN "https://" ELSE "http://")

C6_Witness == pc = "listening" /\ server = "https" /\ BundleLoaded /\ rpc.dir = "done"

\* readCertificates has awaited the three reads and the server is not bound yet
CertificatesAwaited ==
    pc \in { "createServer", "listen", "aborted" } /\ reads # NoReads

ExtensionOf(path) == FileNameExtension(path).s
HasExtension(path) == ~EndsWith(path, "/") /\ FileNameExtension(path) # Null
ConfiguredExtension(path) ==
    HasExtension(path) /\ ExtensionOf(path) \in DOMAIN FILE_NAME_EXTENSION_MEDIA_TYPES.o
UnconfiguredExtension(path) ==
    HasExtension(path) /\ ExtensionOf(path) \notin DOMAIN FILE_NAME_EXTENSION_MEDIA_TYPES.o
ConfiguredMediaType(path) == FILE_NAME_EXTENSION_MEDIA_TYPES.o[ExtensionOf(path)].s
ExistingFile(path) == Stat(ROOT_FOLDER, Join(path)) = "file"

C10_StaticTypeUntouched ==
    [][ (Resumed("contentType") /\ UnconfiguredExtension(ctx.path)) =>
            GetHeader(ctx'.headers, "Content-Type") = GetHeader(ctx.headers, "Content-Type")
      ]_vars

\* C10: for a path whose extension is not mapped, the content-type stage sets
\* Content-Type to what Koa looks up for the extension.  For a served file
\* with an extension the lookup knows, that is the value the static-file
\* stage has set; for an extension the lookup does not know, the stage
\* removes the header.
C10_ExtensionLookedUp ==
    [][ (Resumed("contentType") /\ UnconfiguredExtension(ctx.path)) =>
            /\ GetHeader(ctx'.headers, "Content-Type") =
                  MimeContentType(ExtensionOf(ctx.path))
            /\ (MimeLookup(ExtensionOf(ctx.path)) # "" /\ ctx.body.kind = "stream") =>
                  GetHeader(ctx'.headers, "Content-Type") =
                      GetHeader(ctx.headers, "Content-Type")
            /\ (MimeContentType(ExtensionOf(ctx.path)) = "") =>
                  "Content-Type" \notin DOMAIN ctx'.headers
      ]_vars

C10_Witness ==
    /\ Responded
    /\ ctx.path = << "/", "u", ".", "zzz" >>
    /\ UnconfiguredExtension(ctx.path)
    /\ \E i \in 1..Len(trace) : trace[i] = "contentType.lookup"
    /\ response.status = 200
    /\ response.body.kind = "stream"
    /\ "Content-Type" \notin DOMAIN response.headers

\* the request path has no '.' and does not end in '/'
PlainPath(path) == ~Includes(path, ".") /\ ~EndsWith(path, "/")
Traced(event) == \E i \in 1..Len(trace) : trace[i] = event
LastTraced(event) == trace # << >> /\ trace[Len(trace)] = event

C12_IndexUntouched ==
    [][ (Resumed("contentType") /\ EndsWith(ctx.path, "/")) => ctx' = ctx ]_vars

C12_Witness ==
    /\ Responded
    /\ ctx.path = << "/", "d", "/" >>
    /\ Traced("contentType.index")
    /\ KeyCount(FILE_NAME_EXTENSION_MEDIA_TYPES) > 0
    /\ response.status = 200
    /\ ResponseHeader("Content-Type") = "text/html; charset=utf-8"

\* C13: when a resource is requested with GET a second time and the request
\* carries as If-None-Match the ETag the first response returned, the second
\* response has status 304 and no body, and names the same ETag.
C13_NotModified ==
    (Responded /\ ctx.ifNoneMatch # "") =>
        /\ response.status = 304
        /\ response.body = NoBody
        /\ ResponseHeader("ETag") = ctx.ifNoneMatch

C13_Witness ==
    /\ Responded
    /\ ctx.method = "GET"
    /\ ctx.path = << "/", "s", ".", "css" >>
    /\ ctx.ifNoneMatch = EntityTag("/s.css")
    /\ response.status = 304
    /\ response.body = NoBody

\* the file a path asks for: the index document when the path ends in '/'
RequestedFile(path) ==
    IF EndsWith(path, "/") THEN Join(Decode(path)) \o Join(IndexDocument)
    ELSE Join(Decode(path))
NoSuchFile(path) == Stat(ROOT_FOLDER, RequestedFile(path)) = "ENOENT"

\* C14: for every request whose path resolves to no existing file under the
\* root folder, the response has status 404 and no file content is sent.
C14_MissingFileNotFound ==
    (Responded /\ NoSuchFile(ctx.path)) =>
        /\ response.status = 404
        /\ response.body.kind # "stream"

C14_Witness ==
    /\ Responded
    /\ ctx.path = << "/", "m", ".", "png" >>
    /\ NoSuchFile(ctx.path)
    /\ response.status = 404
    /\ response.body.kind = "string"

\* the request path, once decoded, holds a ".." segment
Escapes(path) ==
    \E i \in 1..(Len(path) - 1) : Decode(path)[i] = "." /\ Decode(path)[i + 1] = "."

\* C15: no response holds the content of a file outside the root folder, and
\* a request whose path escapes the root is answered with 403 or 404.
C15_NothingOutsideRoot ==
    Responded =>
        /\ response.body.kind = "stream" => response.body.path \in Files
        /\ Escapes(ctx.path) =>
              /\ response.status \in { 403, 404 }
              /\ response.body.kind # "stream"

C15_Witness ==
    /\ Responded
    /\ ctx.path = << "/", ".", ".", "/", "x" >>
    /\ Stat(ROOT_FOLDER, Join(ctx.path)) = "file"
    /\ response.status = 403
    /\ response.body.kind = "string"

\* C16: for every request, whatever its outcome, exactly one access line is
\* logged, and the status it records is the status of the response sent.
C16_OneAccessLine ==
    Responded =>
        /\ Len(accessLog) = 1
        /\ accessLog[1].status = response.status

\* the command line has been read and the configuration file has not
CommandLineRead == configurationFile = NoFile /\ configuration = Uninitialized

\* C17: an invalid value of a configuration field, the headers and the
\* extension media types included, never aborts startup: after the command
\* line has been read startup goes on, whatever the arguments hold.
C17_InvalidValueNeverAborts ==
    CommandLineRead => pc # "aborted"

\* C18: the startup banner is written exactly once, only after the socket
\* has been bound, and its scheme is https:// exactly when the server is an
\* HTTPS server.
C18_BannerOnce ==
    /\ banner.count <= 1
    /\ banner.count = 1 <=> pc = "listening"
    /\ banner.count = 1 =>
          banner.scheme = (IF server = "https" THEN "https://" ELSE "http://")

C18_Witness ==
    /\ pc = "listening"
    /\ server = "https"
    /\ banner = [count |-> 1, scheme |-> "https://"]
    /\ Responded

\* server.listen has failed: the server exists and an error is uncaught
BindFailed == server # "none" /\ uncaught # NoError

\* C19: when the socket cannot be bound the process aborts: the banner is
\* never written and no request is ever handled.
C19_BindFailureAborts ==
    BindFailed =>
        /\ pc = "aborted"
        /\ banner.count = 0
        /\ rpc = Idle
        /\ response = NoResponse
        /\ accessLog = << >>

C19_Witness ==
    /\ pc = "aborted"
    /\ server = "http"
    /\ uncaught = Err("Error", "EADDRINUSE")
    /\ banner.count = 0

\* both requests in flight have been answered, and they were the same request
BothResponded == Responded /\ parked.rpc = Done
SameRequest ==
    /\ ctx.method = parked.ctx.method
    /\ ctx.path = parked.ctx.path
    /\ ctx.ifNoneMatch = parked.ctx.ifNoneMatch

\* C20: across every interleaving of two requests handled at once, the
\* configuration and the certificate bundle stay as startup left them, and
\* what a request is answered with does not depend on the other request: two
\* requests that are the same get the same response and the same log lines.
C20_RequestsIndependent ==
    /\ [][ pc = "listening" =>
             UNCHANGED << configuration, privateKey, certificateSigningRequest,
                          certificate, httpsEnabled, server, middleware >> ]_vars
    /\ []((BothResponded /\ SameRequest) =>
             /\ response = parked.response
             /\ ctx = parked.ctx
             /\ accessLog = parked.accessLog
             /\ errorLog = parked.errorLog)

\* the same file asked for twice at once, both served, one after a turn to
\* a third request with another outcome
C20_Witness ==
    /\ BothResponded
    /\ SameRequest
    /\ ctx.path = << "/", "t", ".", "mu" >>
    /\ response.status = 200
    /\ parked.response.status = 200
    /\ ResponseHeader("X-Test") = "cli"

\* the stages behind the folder test
BehindRedirect == { "conditionalGet", "etag", "headers", "contentType", "send" }

\* C21: when the directory-redirect stage finds that the request path is a
\* folder and issues the 302 redirect, none of the stages behind it
\* (conditional-GET, ETag, header injection, content type, static file) is
\* invoked for that request.
C21_RedirectEndsChain ==
    (FolderRequested /\ Traced("redirect.stat")) =>
        \A stage \in BehindRedirect : ~Traced(stage)

\* the order the claim gives, and what the trace records of it
StageOrder ==
    << "accessLog", "redirect", "conditionalGet", "etag" >>
    \o (IF KeyCount(HEADERS) > 0 THEN << "headers" >> ELSE << >>)
    \o << "contentType", "send" >>
IsStage(event) == \E i \in 1..Len(StageOrder) : StageOrder[i] = event
Entered == SelectSeq(trace, IsStage)
ContentTypeResumed ==
    { "contentType.index", "contentType.plain", "contentType.mapped",
      "contentType.lookup" }
Before(earlier, later) ==
    \A i \in 1..Len(trace) :
        trace[i] \in later => \E j \in 1..(i - 1) : trace[j] \in earlier

\* C22: for every request the stages are entered in the fixed order access
\* log, directory redirect, conditional GET, ETag, header injection (only
\* when headers are configured), content type, static file; the content-type
\* stage does its work only after the static-file stage has finished, and the
\* access-log stage only after the content-type stage has.
C22_StagesInOrder ==
    (rpc.dir # "idle") =>
        /\ Entered = SubSeq(StageOrder, 1, Len(Entered))
        /\ Responded => Entered = StageOrder
        /\ Before({ "send" }, ContentTypeResumed)
        /\ Before(ContentTypeResumed, { "accessLog.return" })

C22_Witness ==
    /\ Responded
    /\ KeyCount(HEADERS) > 0
    /\ ctx.path = << "/", "t", ".", "mu" >>
    /\ trace = << "accessLog", "redirect", "conditionalGet", "etag", "headers",
                  "contentType", "send", "contentType.mapped", "headers.return",
                  "etag.return", "conditionalGet.return", "redirect.return",
                  "accessLog.return", "respond" >>

\* C23: a request for a missing file is answered with 404 and no entry is
\* written to the error log for it, neither by the static-file stage nor by
\* the 'error' listener of the application.
C23_MissingFileNotLogged ==
    (Responded /\ NoSuchFile(ctx.path)) =>
        /\ response.status = 404
        /\ errorLog = << >>

\* the stat of the folder test fails for the request path
FolderTestFails ==
    /\ FolderCandidate(ctx.path)
    /\ Stat(ROOT_FOLDER, Join(ctx.path)) \notin { "dir", "file" }
Times(event) == Cardinality({ i \in 1..Len(trace) : trace[i] = event })

\* C24: in the directory-redirect stage a stat failure never aborts the
\* request: a not-found failure is swallowed without an error-log entry, any
\* other failure is logged once, and in both cases the context is left as it
\* was and the rest of the chain is invoked, exactly once.
C24_StatFailureConsumed ==
    /\ [][ (Entering("redirect") /\ FolderTestFails) =>
              /\ rpc' = [at |-> rpc.at + 1, dir |-> "down"]
              /\ middleware[rpc'.at] = "conditionalGet"
              /\ ctx' = ctx
              /\ errorLog' =
                    IF Stat(ROOT_FOLDER, Join(ctx.path)) = "ENOENT" THEN errorLog
                    ELSE Append(errorLog, Err("Error", Stat(ROOT_FOLDER, Join(ctx.path))))
         ]_vars
    /\ [](Traced("redirect.stat") => Times("redirect") = 1)
    /\ []((FolderTestFails /\ Traced("conditionalGet")) => Times("conditionalGet") = 1)
    /\ []((Responded /\ FolderTestFails) => Times("conditionalGet") = 1)

C24_Witness ==
    /\ Responded
    /\ ctx.path = << "/", "loop" >>
    /\ Traced("redirect.stat")
    /\ Times("conditionalGet") = 1
    /\ Traced("send")
    /\ errorLog[1] = Err("Error", "ELOOP")

\* the content types Koa makes of the configured media types
Overrides ==
    { MimeContentType(FILE_NAME_EXTENSION_MEDIA_TYPES.o[key].s) :
        key \in DOMAIN FILE_NAME_EXTENSION_MEDIA_TYPES.o }

\* C25: the content-type stage applies a configured media type if and only
\* if the substring after the last '.' of the request path is, case-sensitively
\* and exactly, a key of the configured extension media types: for such a path
\* it sets the content type of the media type configured for that key, and for
\* every other extension it sets what the lookup of the extension itself
\* gives, which is none of the configured overrides.
C25_OverrideIffConfiguredKey ==
    [][ (Resumed("contentType") /\ HasExtension(ctx.path)) =>
            IF ExtensionOf(ctx.path) \in DOMAIN FILE_NAME_EXTENSION_MEDIA_TYPES.o
            THEN GetHeader(ctx'.headers, "Content-Type") =
                    MimeContentType(ConfiguredMediaType(ctx.path))
            ELSE /\ GetHeader(ctx'.headers, "Content-Type") =
                       MimeContentType(ExtensionOf(ctx.path))
                 /\ GetHeader(ctx'.headers, "Content-Type") \notin Overrides
      ]_vars

C25_Witness ==
    /\ Responded
    /\ ctx.path = << "/", "t", ".", "MU" >>
    /\ DOMAIN FILE_NAME_EXTENSION_MEDIA_TYPES.o = { "mu" }
    /\ Traced("contentType.lookup")
    /\ response.status = 200
    /\ response.body.kind = "stream"
    /\ "Content-Type" \notin DOMAIN response.headers

\* the await of readCertificates can be resumed by a rejection with this code
RejectsWith(code) == \E i \in 1..3 : SettleRead(i) /\ rejection' = code

\* C26: the outcome of readCertificates (the bundle of the three texts, the
\* all-null bundle, or the end of startup) is determined by which reads
\* succeed and which fail, and is the same for every order in which the three
\* reads complete: whenever the await can be resumed by the failure of one
\* read or by the failure of another, depending on which of them settles
\* first, the catch block handles the two alike.
C26_OrderIndependent ==
    (pc = "awaitCertificates" /\ ~LogErrorThrows) =>
        \A first, other \in ReadOutcomes \ { "ok" } :
            ((ENABLED RejectsWith(first)) /\ (ENABLED RejectsWith(other))) =>
                (Rethrown(first) <=> Rethrown(other))

\* the location root + name is below the root: fs.stat takes the name as it
\* is written, so only a ".." segment leads out of the folder
UnderRoot(name) == Head(name) = "/" /\ ~UpPath(Tail(name))

\* C27: the directory-redirect stage stats only for request paths that hold
\* no '.' and do not end in '/'; so it never stats a path with a ".."
\* segment, and every location it stats (the root folder followed by the
\* request path as written) lies under the root folder.
C27_FolderTestUnderRoot ==
    /\ Traced("redirect.stat") =>
          /\ PlainPath(ctx.path)
          /\ ~UpPath(Tail(ctx.path))
          /\ UnderRoot(ctx.path)
          /\ Join(ctx.path) \notin OutsideFiles
    /\ (Traced("redirect") /\ ~PlainPath(ctx.path)) => ~Traced("redirect.stat")

C27_Witness ==
    /\ Responded
    /\ ctx.path = << "/", "%2e", "%2e", "/", "x" >>
    /\ Traced("redirect.stat")
    /\ Stat(ROOT_FOLDER, Join(ctx.path)) = "ENOENT"
    /\ response.status = 403

\* a request has been dispatched and not answered yet
InFlight == rpc.dir \in { "down", "up", "respond", "onerror" }

\* C28: every request dispatched to the pipeline eventually receives exactly
\* one response, provided every file-system operation it awaits completes: an
\* answer is written once, by the step that ends the request, and no stage
\* runs twice for a request.
C28_EveryRequestAnswered ==
    /\ InFlight ~> Responded
    /\ [][ response' # response =>
              \/ rpc.dir \in { "respond", "onerror" } /\ rpc'.dir = "done"
                    /\ response = NoResponse
              \/ rpc.dir \in { "idle", "done" } /\ rpc'.dir = "down"
                    /\ response' = NoResponse
         ]_vars
    /\ [](Responded => (response # NoResponse /\ Times("respond") + Times("onerror") = 1))
    /\ [](\A i, j \in 1..Len(trace) : trace[i] = trace[j] => i = j)

C28_Witness ==
    /\ Responded
    /\ ctx.path = << "/", "loop" >>
    /\ Times("redirect.stat") = 1
    /\ Times("send") = 1
    /\ Traced("onerror")
    /\ response.status = 500

====
